---- MODULE Spec2Model ----
(***************************************************************************)
(* Model of package envflag (src/envflag.go): Parse runs the flag set's    *)
(* parser over the argument list, then feeds the environment values of the *)
(* flags left unset through the same parser as a synthesized argument list.*)
(*                                                                         *)
(* A Go string is a sequence of one-character strings, so that upper and   *)
(* lower casing, replacement, concatenation and the parser's scanning for  *)
(* '-' and '=' are computed character by character.                        *)
(***************************************************************************)
EXTENDS Integers, Sequences, FiniteSets, TLC

VARIABLES
    o,        \* the option struct: [args, prefix] (o.set is the variable set)
    environ,  \* the process environment: a function from keys to values
    set,      \* the flag.FlagSet: [value, actual, args]
    unset,    \* the map `unset`: the names of the flags the first pass left unset
    todo,     \* the range loop over unset: the names it has not visited yet
    args,     \* the local slice `args`: the synthesized argument list
    pc,       \* position in Parse: "parse", "visit", "range", "done"
    err,      \* what Parse returned: "none" while running, then "nil" or "error"
    step1,    \* history: [fs, failed], the flag set as the first pass left it
              \* and whether the first pass returned an error
    lookups,  \* history: the keys handed to os.LookupEnv
    passes    \* history: the number of calls of set.Parse

vars == <<o, environ, set, unset, todo, args, pc, err, step1, lookups, passes>>

----------------------------------------------------------------------------
(* Bounds of the model                                                      *)

\* longest argument list handed to Parse
MaxArgs == 2

\* largest number of variables in the environment
MaxEnv == 2

----------------------------------------------------------------------------
(* Strings                                                                  *)

LowerLetters ==
    <<"a","b","c","d","e","f","g","h","i","j","k","l","m",
      "n","o","p","q","r","s","t","u","v","w","x","y","z">>

UpperLetters ==
    <<"A","B","C","D","E","F","G","H","I","J","K","L","M",
      "N","O","P","Q","R","S","T","U","V","W","X","Y","Z">>

Digits == <<"0","1","2","3","4","5","6","7","8","9">>

\* the position of character c in the sequence cs, 0 when it is not there
IndexOf(c, cs) ==
    IF \E i \in DOMAIN cs : cs[i] = c
    THEN CHOOSE i \in DOMAIN cs : cs[i] = c
    ELSE 0

\* the upper-case letter of every lower-case letter
UpperOf ==
    [c \in {LowerLetters[i] : i \in 1..26} |->
        UpperLetters[IndexOf(c, LowerLetters)]]

\* the lower-case letter of every upper-case letter
LowerOf ==
    [c \in {UpperLetters[i] : i \in 1..26} |->
        LowerLetters[IndexOf(c, UpperLetters)]]

\* strings.ToUpper
ToUpper(s) ==
    [i \in DOMAIN s |->
        IF s[i] \in DOMAIN UpperOf THEN UpperOf[s[i]] ELSE s[i]]

\* strings.ToLower
ToLower(s) ==
    [i \in DOMAIN s |->
        IF s[i] \in DOMAIN LowerOf THEN LowerOf[s[i]] ELSE s[i]]

\* strings.Replace(s, old, new, -1) for one-character old and new
Replace(s, old, new) ==
    [i \in DOMAIN s |-> IF s[i] = old THEN new ELSE s[i]]

\* the string literals of the source and of the inputs
sTrue  == <<"t","r","u","e">>
sFalse == <<"f","a","l","s","e">>
sYes   == <<"y","e","s">>
sNo    == <<"n","o">>
sDashDash == <<"-","-">>

----------------------------------------------------------------------------
(* The flag definitions: the FlagSet's `formal` map after registration      *)

nameN  == <<"n">>
nameAB == <<"a","-","b">>
nameCD == <<"c",".","d">>

\* f.Int("n", -1, ""); f.Bool("a-b", true, ""); f.Bool("c.d", false, "")
formal ==
    (nameN  :> [kind |-> "int",  default |-> -1]) @@
    (nameAB :> [kind |-> "bool", default |-> TRUE]) @@
    (nameCD :> [kind |-> "bool", default |-> FALSE])

Names == DOMAIN formal

\* the value every flag holds after registration
Defaults == [n \in Names |-> formal[n].default]

\* the flag's value has an IsBoolFlag method that returns true
IsBoolFlag(name) == formal[name].kind = "bool"

----------------------------------------------------------------------------
(* The standard library's value parsers                                     *)

\* strconv.ParseBool
ParseBool(s) ==
    IF s \in {<<"1">>, <<"t">>, <<"T">>, sTrue, ToUpper(sTrue),
              <<"T","r","u","e">>}
    THEN [ok |-> TRUE, v |-> TRUE]
    ELSE IF s \in {<<"0">>, <<"f">>, <<"F">>, sFalse, ToUpper(sFalse),
                   <<"F","a","l","s","e">>}
    THEN [ok |-> TRUE, v |-> FALSE]
    ELSE [ok |-> FALSE, v |-> FALSE]

RECURSIVE DigitsValue(_, _)
\* the number the digit string ds denotes in the given base
DigitsValue(ds, base) ==
    IF Len(ds) = 0 THEN 0
    ELSE DigitsValue(SubSeq(ds, 1, Len(ds) - 1), base) * base
         + (IndexOf(ds[Len(ds)], Digits) - 1)

\* strconv.ParseInt(s, 0, 64) on signed decimal and octal numerals; the
\* inputs of the model hold no 0x, 0b or 0o prefix, no underscore and no
\* numeral beyond 64 bits
ParseInt(s) ==
    LET signed == Len(s) > 0 /\ s[1] \in {"+", "-"}
        ds     == IF signed THEN Tail(s) ELSE s
        octal  == Len(ds) > 1 /\ ds[1] = "0"
        base   == IF octal THEN 8 ELSE 10
        good   == /\ Len(ds) > 0
                  /\ \A i \in 1..Len(ds) :
                        /\ IndexOf(ds[i], Digits) # 0
                        /\ IndexOf(ds[i], Digits) <= base
        mag    == DigitsValue(ds, base)
    IN  IF good
        THEN [ok |-> TRUE, v |-> IF signed /\ s[1] = "-" THEN 0 - mag ELSE mag]
        ELSE [ok |-> FALSE, v |-> 0]

\* Value.Set of the flag named name: the parsed value, or not ok
ValueSet(name, s) ==
    IF IsBoolFlag(name) THEN ParseBool(s) ELSE ParseInt(s)

----------------------------------------------------------------------------
(* The standard library's FlagSet.Parse, for a flag set made with           *)
(* flag.ContinueOnError, whose Parse returns its error; a flag name holds   *)
(* no '=' and does not begin with '-', as flag.Var requires                 *)

\* the position of the first '=' of name after its first character, 0 if none
EqualsAt(name) ==
    IF \E i \in 2..Len(name) : name[i] = "="
    THEN CHOOSE i \in 2..Len(name) :
            name[i] = "=" /\ \A j \in 2..(i - 1) : name[j] # "="
    ELSE 0

\* FlagSet.parseOne: [fs, seen, failed]
parseOne(fs) ==
    LET stop(f) == [fs |-> f, seen |-> FALSE, failed |-> FALSE]
        fail(f) == [fs |-> f, seen |-> FALSE, failed |-> TRUE]
    IN
    IF Len(fs.args) = 0 THEN stop(fs)
    ELSE
    LET s == Head(fs.args) IN
    IF Len(s) < 2 \/ s[1] # "-" THEN stop(fs)
    ELSE
    LET numMinuses == IF s[2] = "-" THEN 2 ELSE 1 IN
    IF s[2] = "-" /\ Len(s) = 2
    THEN stop([fs EXCEPT !.args = Tail(fs.args)])
    ELSE
    LET name0 == SubSeq(s, numMinuses + 1, Len(s)) IN
    IF Len(name0) = 0 \/ name0[1] \in {"-", "="} THEN fail(fs)
    ELSE
    LET fs1      == [fs EXCEPT !.args = Tail(fs.args)]
        eq       == EqualsAt(name0)
        hasValue == eq # 0
        value    == IF hasValue THEN SubSeq(name0, eq + 1, Len(name0)) ELSE <<>>
        name     == IF hasValue THEN SubSeq(name0, 1, eq - 1) ELSE name0
        done(f, v) ==
            [fs |-> [f EXCEPT !.value[name] = v,
                              !.actual = f.actual \cup {name}],
             seen |-> TRUE, failed |-> FALSE]
    IN
    IF name \notin Names THEN fail(fs1)
    ELSE IF IsBoolFlag(name)
    THEN LET r == ValueSet(name, IF hasValue THEN value ELSE sTrue)
         IN  IF r.ok THEN done(fs1, r.v) ELSE fail(fs1)
    ELSE IF ~hasValue /\ Len(fs1.args) = 0 THEN fail(fs1)
    ELSE LET v2  == IF hasValue THEN value ELSE Head(fs1.args)
             fs2 == IF hasValue THEN fs1
                    ELSE [fs1 EXCEPT !.args = Tail(fs1.args)]
             r   == ValueSet(name, v2)
         IN  IF r.ok THEN done(fs2, r.v) ELSE fail(fs2)

RECURSIVE parseLoop(_)
\* the loop of FlagSet.Parse, under ContinueOnError: [fs, failed]
parseLoop(fs) ==
    LET r == parseOne(fs)
    IN  IF r.seen THEN parseLoop(r.fs)
        ELSE [fs |-> r.fs, failed |-> r.failed]

\* FlagSet.Parse(arguments)
FlagSetParse(fs, arguments) ==
    parseLoop([fs EXCEPT !.args = arguments])

----------------------------------------------------------------------------
(* envflag                                                                  *)

\* a faulty key: the name is not upper-cased
EnvKeyNoUpper(name) ==
    Replace(Replace(name, ".", "_"), "-", "_")

\* a faulty key: '-' is not replaced
EnvKeyKeepsDash(name) ==
    Replace(ToUpper(name), ".", "_")

\* the key env hands to os.LookupEnv
EnvKey(name) ==
    Replace(Replace(ToUpper(name), ".", "_"), "-", "_")

\* env: os.LookupEnv of the key of name, [v, ok]
env(name) ==
    LET key == EnvKey(name)
    IN  IF key \in DOMAIN environ
        THEN [v |-> environ[key], ok |-> TRUE]
        ELSE [v |-> <<>>, ok |-> FALSE]

\* isBoolFlag(f.Value)
isBoolFlag(name) ==
    IsBoolFlag(name)

\* a faulty switch: on v itself, so that only lower-case words are known
normalizeCaseSensitive(name, v) ==
    IF isBoolFlag(name)
    THEN IF v \in {sTrue, sYes, <<"y">>, <<"1">>} THEN sTrue
         ELSE IF v \in {sFalse, sNo, <<"n">>, <<"0">>} THEN sFalse
         ELSE v
    ELSE v

\* a faulty switch: with a default case that makes every other word false
normalizeDefaultsFalse(name, v) ==
    IF isBoolFlag(name)
    THEN IF ToLower(v) \in {sTrue, sYes, <<"y">>, <<"1">>} THEN sTrue
         ELSE sFalse
    ELSE v

\* the switch on strings.ToLower(v) for a boolean flag
normalize(name, v) ==
    IF isBoolFlag(name)
    THEN IF ToLower(v) \in {sTrue, sYes, <<"y">>, <<"1">>} THEN sTrue
         ELSE IF ToLower(v) \in {sFalse, sNo, <<"n">>, <<"0">>} THEN sFalse
         ELSE v
    ELSE v

\* a faulty append: the name and the value as two arguments
appendEntrySplit(as, name, v) ==
    as \o <<sDashDash \o name, v>>

\* args = append(args, "--"+name+"="+v)
appendEntry(as, name, v) ==
    Append(as, sDashDash \o name \o <<"=">> \o v)

\* a faulty map: the set flags are not deleted from it
UnsetKeepsSet(fs) ==
    Names

\* the map unset after VisitAll has filled it and Visit has emptied it of the
\* flags that were set
Unset(fs) ==
    Names \ fs.actual

\* a faulty first pass: its error is ignored
afterFirstPassIgnored(failed) ==
    "visit"

\* where Parse goes after the first pass
afterFirstPass(failed) ==
    IF failed THEN "done" ELSE "visit"

\* a faulty test: the second pass always runs
returnsEarlyNever(as) ==
    FALSE

\* len(args) == 0 returns nil before the second pass
returnsEarly(as) ==
    Len(as) = 0

\* a faulty return: the error of the second pass is dropped
secondPassResultDropped(failed) ==
    "nil"

\* what Parse returns for the second pass: the error of set.Parse, or nil
secondPassResult(failed) ==
    IF failed THEN "error" ELSE "nil"

\* a faulty second list: the leftover arguments without the "--"
secondArgsNoTerminator(as, s) ==
    as \o s

\* the argument list of the second pass: the entries, then "--" and the
\* arguments the first pass left over, when there are any
secondArgs(as, s) ==
    IF Len(s) > 0 THEN (as \o <<sDashDash>>) \o s ELSE as

----------------------------------------------------------------------------
(* The inputs                                                               *)

tokN     == <<"-","-","n">>
tokFive  == <<"5">>
tokAB    == <<"-","-","a","-","b">>
tokUndef == <<"-","z">>
tokBad   == <<"-","=">>

\* the arguments the argument lists are made of: a flag that takes the next
\* argument as its value, a value, a boolean flag, the terminator, a flag
\* that is not defined and a malformed argument
Tokens == {tokN, tokFive, tokAB, sDashDash, tokUndef, tokBad}

ArgLists(k) == UNION {[1..m -> Tokens] : m \in 0..k}

noPrefix == <<>>
prefixP  == <<"p","-">>

Prefixes == {noPrefix, prefixP}

\* the keys the environment may hold under a prefix: those of the three flags
KeysFor(p) ==
    IF p = noPrefix
    THEN {<<"N">>, <<"A","_","B">>, <<"C","_","D">>}
    ELSE {<<"P","_","N">>, <<"P","_","A","_","B">>, <<"P","_","C","_","D">>}

\* the values: a number, a number that is a falsy word, a truthy word that
\* ParseBool does not know and one it does
EnvValues == {<<"7">>, <<"0">>, <<"Y","e","s">>, <<"t">>}

\* the environments of at most k variables
Envs(keys, values, k) ==
    UNION {[K -> values] : K \in {S \in SUBSET keys : Cardinality(S) <= k}}

\* the state when Parse is called, the options applied
InitWith(argLists, prefix, envs) ==
    /\ o \in [args : argLists, prefix : {prefix}]
    /\ environ \in envs
    /\ set = [value |-> Defaults, actual |-> {}, args |-> <<>>]
    /\ unset = {}
    /\ todo = {}
    /\ args = <<>>
    /\ pc = "parse"
    /\ err = "none"
    /\ step1 = [fs |-> [value |-> Defaults, actual |-> {}, args |-> <<>>],
                failed |-> FALSE]
    /\ lookups = {}
    /\ passes = 0

Init ==
    \E p \in Prefixes :
        InitWith(ArgLists(MaxArgs), p, Envs(KeysFor(p), EnvValues, MaxEnv))

----------------------------------------------------------------------------
(* Parse, step by step                                                      *)

\* if err := o.set.Parse(o.args); err != nil { return err }
FirstPass ==
    /\ pc = "parse"
    /\ LET r == FlagSetParse(set, o.args)
       IN  /\ set' = r.fs
           /\ step1' = r
           /\ pc' = afterFirstPass(r.failed)
           /\ err' = IF r.failed THEN "error" ELSE "none"
    /\ passes' = passes + 1
    /\ UNCHANGED <<o, environ, unset, todo, args, lookups>>

\* unset is filled by VisitAll and emptied of the set flags by Visit
Visit ==
    /\ pc = "visit"
    /\ unset' = Unset(set)
    /\ todo' = Unset(set)
    /\ args' = <<>>
    /\ pc' = "range"
    /\ UNCHANGED <<o, environ, set, err, step1, lookups, passes>>

\* one iteration of the range over unset, in the order the map yields
Range ==
    /\ pc = "range"
    /\ \E name \in todo :
        LET r == env(o.prefix \o name)
        IN  /\ lookups' = lookups \cup {EnvKey(o.prefix \o name)}
            /\ args' = IF r.ok
                       THEN appendEntry(args, name, normalize(name, r.v))
                       ELSE args
            /\ todo' = todo \ {name}
    /\ UNCHANGED <<o, environ, set, unset, pc, err, step1, passes>>

\* if len(args) == 0 { return nil }
ReturnEarly ==
    /\ pc = "range"
    /\ todo = {}
    /\ returnsEarly(args)
    /\ pc' = "done"
    /\ err' = "nil"
    /\ UNCHANGED <<o, environ, set, unset, todo, args, step1, lookups, passes>>

\* return o.set.Parse(args), args extended by the leftover arguments
SecondPass ==
    /\ pc = "range"
    /\ todo = {}
    /\ ~returnsEarly(args)
    /\ LET r == FlagSetParse(set, secondArgs(args, set.args))
       IN  /\ set' = r.fs
           /\ err' = secondPassResult(r.failed)
    /\ args' = secondArgs(args, set.args)
    /\ passes' = passes + 1
    /\ pc' = "done"
    /\ UNCHANGED <<o, environ, unset, todo, step1, lookups>>

Next ==
    \/ FirstPass
    \/ Visit
    \/ Range
    \/ ReturnEarly
    \/ SecondPass

Spec == Init /\ [][Next]_vars

\* the inputs of the boolean words: one boolean flag's variable, or none,
\* holding any spelling of a word, and a first pass that succeeds or fails
Spellings(w) ==
    {s \in [1..Len(w) -> {w[i] : i \in 1..Len(w)}
                         \cup {ToUpper(w)[i] : i \in 1..Len(w)}] :
        \A i \in 1..Len(w) : s[i] \in {w[i], ToUpper(w)[i]}}

BoolWords ==
    UNION {Spellings(w) : w \in {sTrue, sYes, <<"y">>, <<"1">>,
                                 sFalse, sNo, <<"n">>, <<"0">>}}
    \cup {<<"t">>, <<"o","n">>, <<"n","o","p","e">>}

BoolEnvs ==
    {<<>>} \cup {k :> v : k \in {<<"A","_","B">>, <<"C","_","D">>},
                          v \in BoolWords}

InitBool ==
    InitWith({<<>>, <<tokFive>>, <<tokUndef>>}, noPrefix, BoolEnvs)

SpecBool == InitBool /\ [][Next]_vars

----------------------------------------------------------------------------
(* What the claims speak of                                                 *)

\* Parse has returned nil
Succeeded == pc = "done" /\ err = "nil"

\* the first pass has run and returned no error
FirstPassed == passes >= 1 /\ ~step1.failed

\* the flags the first pass set from the argument list
OnCommandLine == step1.fs.actual

\* the flags the range loop has visited
Visited == unset \ todo

\* UPPER(prefix + name) with '.' and '-' replaced by '_'
SpecKey(p, name) ==
    [i \in 1..(Len(p) + Len(name)) |->
        LET c == IF i <= Len(p) THEN p[i] ELSE name[i - Len(p)]
        IN  IF c \in {".", "-"} THEN "_"
            ELSE IF c \in DOMAIN UpperOf THEN UpperOf[c]
            ELSE c]

HasEnv(name) == SpecKey(o.prefix, name) \in DOMAIN environ

EnvOf(name) == environ[SpecKey(o.prefix, name)]

\* v is the word w whatever the case of its letters
IsWord(v, w) == ToUpper(v) = ToUpper(w)

Truthy(v) == \E w \in {sTrue, sYes, <<"y">>, <<"1">>} : IsWord(v, w)

Falsy(v) == \E w \in {sFalse, sNo, <<"n">>, <<"0">>} : IsWord(v, w)

\* the value of the flag's variable as the flag's parser is given it
Normal(name) ==
    IF formal[name].kind = "bool" /\ Truthy(EnvOf(name)) THEN sTrue
    ELSE IF formal[name].kind = "bool" /\ Falsy(EnvOf(name)) THEN sFalse
    ELSE EnvOf(name)

\* the flag's parser accepts the value of the flag's variable
Accepted(name) == ValueSet(name, Normal(name)).ok

\* the entries of the synthesized list: what precedes its "--"
Entries ==
    IF \E i \in DOMAIN args : args[i] = sDashDash
    THEN SubSeq(args, 1, (CHOOSE i \in DOMAIN args :
                            /\ args[i] = sDashDash
                            /\ \A j \in 1..(i - 1) : args[j] # sDashDash) - 1)
    ELSE args

\* the entry --name=v
EntryOf(name, v) == <<"-","-">> \o name \o <<"=">> \o v

\* e is an entry that names the flag
Names_(e, name) ==
    /\ Len(e) >= Len(name) + 3
    /\ SubSeq(e, 1, Len(name) + 3) = <<"-","-">> \o name \o <<"=">>

----------------------------------------------------------------------------
(* The claims                                                               *)

\* C1: a flag set on the command line is not in the map unset, no entry of
\* the synthesized list names it, and after a successful Parse it holds the
\* value the command line gave it, whatever the environment holds.
C1_CommandLineWins ==
    /\ (FirstPassed /\ pc \in {"range", "done"}) =>
            LET es == Entries
            IN  \A n \in OnCommandLine :
                    /\ n \notin unset
                    /\ \A i \in DOMAIN es : ~Names_(es[i], n)
    /\ Succeeded =>
            \A n \in OnCommandLine : set.value[n] = step1.fs.value[n]

\* --a-b on the command line sets a-b to true, its default; the environment
\* says 0; a second pass has run for another flag
C1_Witness ==
    /\ Succeeded
    /\ passes = 2
    /\ nameAB \in OnCommandLine
    /\ HasEnv(nameAB)
    /\ EnvOf(nameAB) = <<"0">>
    /\ set.value[nameAB] = TRUE
    /\ formal[nameAB].default = TRUE

\* C2: after a successful Parse a flag left off the command line whose
\* variable exists with a value its parser accepts, after normalization for
\* a boolean flag, holds that value.
C2_EnvApplied ==
    Succeeded =>
        \A n \in Names \ OnCommandLine :
            (HasEnv(n) /\ Accepted(n)) =>
                set.value[n] = ValueSet(n, Normal(n)).v

\* under the prefix p-, P_N=7 gives n the value 7 instead of -1
C2_Witness ==
    /\ Succeeded
    /\ o.prefix = prefixP
    /\ nameN \notin OnCommandLine
    /\ <<"P","_","N">> \in DOMAIN environ
    /\ environ[<<"P","_","N">>] = <<"7">>
    /\ set.value[nameN] = 7

\* C3: a boolean flag taken from the environment gets the entry --name=true
\* for a truthy word and --name=false for a falsy word, in any case of the
\* letters, and after a successful Parse is true or false accordingly,
\* whatever its default.
C3_BoolWords ==
    \A n \in Visited :
        (formal[n].kind = "bool" /\ HasEnv(n)) =>
            /\ Truthy(EnvOf(n)) =>
                /\ \E i \in DOMAIN Entries : Entries[i] = EntryOf(n, sTrue)
                /\ Succeeded => set.value[n] = TRUE
            /\ Falsy(EnvOf(n)) =>
                /\ \E i \in DOMAIN Entries : Entries[i] = EntryOf(n, sFalse)
                /\ Succeeded => set.value[n] = FALSE

\* A_B=nO makes a-b, true by default, false
C3_Witness ==
    /\ Succeeded
    /\ nameAB \in Visited
    /\ <<"A","_","B">> \in DOMAIN environ
    /\ environ[<<"A","_","B">>] = <<"n","O">>
    /\ set.value[nameAB] = FALSE

\* C4: after a successful Parse the flag set's arguments are those the first
\* pass left over, a suffix of the argument list, with or without a second
\* pass.
C4_PositionalsKept ==
    Succeeded =>
        /\ set.args = step1.fs.args
        /\ \E k \in 0..Len(o.args) :
                step1.fs.args = SubSeq(o.args, k + 1, Len(o.args))

\* the arguments -- --a-b leave --a-b over, and the second pass, run for the
\* variable of n, leaves it over too and does not set a-b
C4_Witness ==
    /\ Succeeded
    /\ passes = 2
    /\ o.args = <<sDashDash, tokAB>>
    /\ set.args = <<tokAB>>
    /\ nameAB \notin set.actual
    /\ nameN \in set.actual

\* C5: the keys looked up are exactly the keys UPPER(prefix + name), '.' and
\* '-' replaced by '_', of the flags the loop has visited, and a flag has an
\* entry exactly if its key is in the environment.
C5_EnvKey ==
    /\ lookups = {SpecKey(o.prefix, n) : n \in Visited}
    /\ LET es == Entries
       IN  \A n \in Names :
                (\E i \in DOMAIN es : Names_(es[i], n))
                    <=> (n \in Visited /\ HasEnv(n))

\* under the prefix p- the flag c.d is looked up as P_C_D and found
C5_Witness ==
    /\ pc = "done"
    /\ o.prefix = prefixP
    /\ lookups = {<<"P","_","N">>, <<"P","_","A","_","B">>,
                  <<"P","_","C","_","D">>}
    /\ <<"P","_","C","_","D">> \in DOMAIN environ
    /\ nameCD \in set.actual

\* the first pass succeeded and the second pass returned an error
SecondFailed == pc = "done" /\ passes = 2 /\ err = "error"

\* the flags the entries name, in the order of the entries
EntryFlags ==
    LET es == Entries
    IN  [i \in DOMAIN es |-> CHOOSE n \in Names : Names_(es[i], n)]

C7_FirstPassError ==
    (passes >= 1 /\ step1.failed) =>
        /\ pc = "done"
        /\ err = "error"
        /\ passes = 1
        /\ lookups = {}
        /\ args = <<>>
        /\ set = step1.fs

\* the undefined flag -z fails the first pass while N=7 is in the environment
C7_Witness ==
    /\ pc = "done"
    /\ step1.failed
    /\ o.args = <<tokUndef>>
    /\ o.prefix = noPrefix
    /\ <<"N">> \in DOMAIN environ
    /\ environ[<<"N">>] = <<"7">>
    /\ set.value[nameN] = -1

C9_AtMostTwoPasses ==
    /\ passes <= 2
    /\ pc = "done" =>
        /\ passes >= 1
        /\ passes = 2 <=>
            (~step1.failed /\ \E n \in Names \ OnCommandLine : HasEnv(n))
        /\ (passes = 1 /\ ~step1.failed) => (err = "nil" /\ set = step1.fs)

\* a-b is set on the command line and is the only flag with a variable, and
\* an argument is left over: no second pass
C9_Witness ==
    /\ Succeeded
    /\ passes = 1
    /\ o.args = <<tokAB, tokFive>>
    /\ DOMAIN environ = {SpecKey(o.prefix, nameAB)}
    /\ set.args = <<tokFive>>

\* the orders in which a range over the set S may yield its elements
Orders(S) ==
    {q \in [1..Cardinality(S) -> S] :
        \A i, j \in 1..Cardinality(S) : q[i] = q[j] => i = j}

RECURSIVE SynthIn(_, _)
\* the list the range loop synthesizes when it visits the flags in order q,
\* found[n] being what env returns for the flag n
SynthIn(q, found) ==
    IF Len(q) = 0 THEN <<>>
    ELSE LET n    == q[Len(q)]
             rest == SynthIn(SubSeq(q, 1, Len(q) - 1), found)
         IN  IF found[n].ok
             THEN appendEntry(rest, n, normalize(n, found[n].v))
             ELSE rest

\* the lists the range loop may synthesize, one for each order
SynthLists ==
    LET found == [n \in unset |-> env(o.prefix \o n)]
    IN  {SynthIn(q, found) : q \in Orders(unset)}

\* what Parse does after the first pass when the loop has synthesized as
OutcomeOf(as) ==
    LET r == FlagSetParse(step1.fs, secondArgs(as, step1.fs.args))
    IN  IF returnsEarly(as)
        THEN [fs |-> step1.fs, err |-> "nil"]
        ELSE [fs |-> r.fs, err |-> secondPassResult(r.failed)]

\* C10: whether Parse succeeds, and when it does every flag's value and the
\* leftover arguments, are the same for every order in which the range loop
\* may visit the unset flags.
C10_OrderIndependent ==
    (pc = "done" /\ FirstPassed) =>
        \A as \in SynthLists :
            LET r == OutcomeOf(as)
            IN  /\ r.err = err
                /\ err = "nil" =>
                    /\ r.fs.value = set.value
                    /\ r.fs.args = set.args

\* two entries, which the loop may synthesize in either order, and an
\* argument left over
C10_Witness ==
    /\ Succeeded
    /\ passes = 2
    /\ Len(Entries) = 2
    /\ \E as \in SynthLists : as # Entries
    /\ set.args = <<tokFive>>
    /\ set.value[nameN] = 7
    /\ set.value[nameCD] = TRUE

====
